---- MODULE Spec2Model ----
(***************************************************************************)
(* Model of the live-proctoring backend (src/server.js): the three         *)
(* in-memory collections of MOCK_DB, the four REST handlers, the risk      *)
(* rules and the notifications published to the per-session rooms.         *)
(***************************************************************************)
EXTENDS Integers, Sequences, FiniteSets, TLC

(* ---------------- bounds of the model ---------------- *)
(* MaxRecords: records held by MOCK_DB; MaxEvents: events of one exam attempt *)
MaxClock == 2
MaxRecords == 4
MaxEvents == 4

(* ---------------- inputs the requests are drawn from ---------------- *)
Usernames == {"alice", "bob"}
UserIds == {"u-1"}
ExamIds == {"exam-A"}
Timestamps == {"t-0"}
Metadatas == {"meta"}
KnownLabels == {"tab_switch", "no_face", "multiple_faces", "looking_away",
                "voice_detected", "fast_answering"}
EventTypes == KnownLabels \cup {"mouse_move"}
(* one label of each kind the event handler tells apart: own message, default *)
(* message, no impact *)
SystemTypes == {"multiple_faces", "fast_answering", "mouse_move"}
Sockets == {"c1", "c2"}
ProbeLabels == EventTypes \cup {"", "TAB_SWITCH", "face"}

(* users, examSessions, logs: the arrays of MOCK_DB                          *)
(* now:     the wall clock read by Date.now() and new Date()                  *)
(* emitted: the io.to(room).emit(event, payload) calls made so far, in order  *)
(* res:     the response to the last request (HTTP status and JSON body)      *)
(* applied: per stored session (by position), the event types applied to it   *)
(* rooms:   per connected socket, the rooms it joined with join_session        *)
(* inbox:   per connected socket, the notifications delivered to it, each with *)
(*          its position among the emitted ones                                *)
VARIABLES users, examSessions, logs, now, emitted, res, applied, rooms, inbox

vars == <<users, examSessions, logs, now, emitted, res, applied, rooms, inbox>>

(* Date.now().toString(): the decimal text of the clock reading *)
DateNowString == ToString(now)

SessionIds == {ToString(t) : t \in 1..MaxClock}

Min(a, b) == IF a <= b THEN a ELSE b

(* ---------------- risk rules ---------------- *)
(* variant: the risks of tab_switch and looking_away exchanged *)
calculateRiskSwapped(eventType) ==
    CASE eventType = "tab_switch" -> 10
      [] eventType = "no_face" -> 20
      [] eventType = "multiple_faces" -> 35
      [] eventType = "looking_away" -> 15
      [] eventType = "voice_detected" -> 25
      [] eventType = "fast_answering" -> 5
      [] OTHER -> 0

(* variant: the fast_answering case missing *)
calculateRiskNoFastAnswering(eventType) ==
    CASE eventType = "tab_switch" -> 15
      [] eventType = "no_face" -> 20
      [] eventType = "multiple_faces" -> 35
      [] eventType = "looking_away" -> 10
      [] eventType = "voice_detected" -> 25
      [] OTHER -> 0

(* function calculateRisk(eventType) *)
calculateRisk(eventType) ==
    CASE eventType = "tab_switch" -> 15
      [] eventType = "no_face" -> 20
      [] eventType = "multiple_faces" -> 35
      [] eventType = "looking_away" -> 10
      [] eventType = "voice_detected" -> 25
      [] eventType = "fast_answering" -> 5
      [] OTHER -> 0

(* function getWarningMessage(eventType) *)
getWarningMessage(eventType) ==
    CASE eventType = "tab_switch" -> "Warning: Please stay on the exam tab."
      [] eventType = "no_face" -> "Warning: No face detected in webcam."
      [] eventType = "multiple_faces" -> "Warning: Multiple faces detected!"
      [] eventType = "looking_away" -> "Warning: Please stay focused on the screen."
      [] eventType = "voice_detected" -> "Warning: Voice detected in the background."
      [] OTHER -> "Warning: Suspicious activity detected."

(* ---------------- Array.prototype.find / filter ---------------- *)
(* variant: users compared by id *)
FindUserById(username) ==
    LET hits == {i \in DOMAIN users : users[i].id = username}
    IN  IF hits = {} THEN 0 ELSE CHOOSE i \in hits : \A j \in hits : i <= j

(* index of the first user with this username, 0 when there is none *)
FindUser(username) ==
    LET hits == {i \in DOMAIN users : users[i].username = username}
    IN  IF hits = {} THEN 0 ELSE CHOOSE i \in hits : \A j \in hits : i <= j

(* variant: an unknown id falls back to the first stored session *)
FindSessionOrFirst(sessionId) ==
    LET hits == {i \in DOMAIN examSessions : examSessions[i].id = sessionId}
    IN  IF hits = {} THEN (IF examSessions = <<>> THEN 0 ELSE 1)
        ELSE CHOOSE i \in hits : \A j \in hits : i <= j

(* index of the first session with this id, 0 when there is none *)
FindSession(sessionId) ==
    LET hits == {i \in DOMAIN examSessions : examSessions[i].id = sessionId}
    IN  IF hits = {} THEN 0 ELSE CHOOSE i \in hits : \A j \in hits : i <= j

(* variant: the logs unfiltered *)
AllLogs(sessionId) == logs

(* MOCK_DB.logs.filter(l => l.sessionId === sessionId) *)
SessionLogs(sessionId) == SelectSeq(logs, LAMBDA l : l.sessionId = sessionId)

(* ---------------- the session update of POST /api/exam/event ---------------- *)
(* variant: no clamp *)
NextRiskScoreUnclamped(riskScore, eventRiskScore) == riskScore + eventRiskScore

(* variant: wraps around instead of clamping *)
NextRiskScoreWrapping(riskScore, eventRiskScore) == (riskScore + eventRiskScore) % 101

(* session.riskScore = Math.min(100, session.riskScore + eventRiskScore) *)
NextRiskScore(riskScore, eventRiskScore) == Min(100, riskScore + eventRiskScore)

(* variant: every event counts as a warning *)
NextWarningsEveryEvent(warnings, eventRiskScore) == warnings + 1

(* if (eventRiskScore > 0) session.warnings += 1 *)
NextWarnings(warnings, eventRiskScore) ==
    IF eventRiskScore > 0 THEN warnings + 1 ELSE warnings

(* variant: threshold off by one *)
NextStatusAboveThree(status, warnings) == IF warnings > 3 THEN "high_risk" ELSE status

(* variant: high_risk from the first warning on *)
NextStatusFromFirstWarning(status, warnings) ==
    IF warnings >= 1 THEN "high_risk" ELSE status

(* if (session.warnings >= 3) session.status = 'high_risk' *)
NextStatus(status, warnings) == IF warnings >= 3 THEN "high_risk" ELSE status

(* variant: every stored session with the updated session's id is overwritten *)
StoreSessionById(idx, updated) ==
    [i \in DOMAIN examSessions |->
        IF examSessions[i].id = updated.id THEN updated ELSE examSessions[i]]

(* the found session object is changed in place: only its position changes *)
StoreSession(idx, updated) == [examSessions EXCEPT ![idx] = updated]

(* ---------------- notifications ---------------- *)
(* variant: the warning built before the session is updated *)
WarningEmitStale(sessionId, eventType, warnings, riskScore) ==
    [room |-> sessionId, event |-> "warning",
     payload |-> [type |-> eventType, message |-> getWarningMessage(eventType),
                  currentWarnings |-> warnings - 1, riskScore |-> riskScore]]

(* io.to(sessionId).emit('warning', {...}) *)
WarningEmit(sessionId, eventType, warnings, riskScore) ==
    [room |-> sessionId, event |-> "warning",
     payload |-> [type |-> eventType, message |-> getWarningMessage(eventType),
                  currentWarnings |-> warnings, riskScore |-> riskScore]]

(* io.to(sessionId).emit('high_risk', {...}) *)
HighRiskEmit(sessionId) ==
    [room |-> sessionId, event |-> "high_risk",
     payload |-> [message |-> "High risk marked: Too many warnings."]]

(* variant: the high_risk emit placed before the warning *)
EventEmitsHighRiskFirst(sessionId, eventType, eventRiskScore, warnings, riskScore) ==
    (IF warnings >= 3 THEN <<HighRiskEmit(sessionId)>> ELSE <<>>)
    \o (IF eventRiskScore > 0
        THEN <<WarningEmit(sessionId, eventType, warnings, riskScore)>> ELSE <<>>)

(* the emits of one event, in program order: warning, then high_risk *)
EventEmits(sessionId, eventType, eventRiskScore, warnings, riskScore) ==
    (IF eventRiskScore > 0
     THEN <<WarningEmit(sessionId, eventType, warnings, riskScore)>> ELSE <<>>)
    \o (IF warnings >= 3 THEN <<HighRiskEmit(sessionId)>> ELSE <<>>)

(* ---------------- delivery to the rooms ---------------- *)
(* the notifications of one event, each with its position among all emitted *)
Numbered(notifications) ==
    [k \in DOMAIN notifications |->
        [seq |-> Len(emitted) + k, note |-> notifications[k]]]

(* variant: io.emit, to every connected socket *)
DeliverToAll(notifications) ==
    [c \in Sockets |-> inbox[c] \o Numbered(notifications)]

(* io.to(room).emit: each notification reaches the sockets that are in its room *)
Deliver(notifications) ==
    [c \in Sockets |->
        inbox[c] \o SelectSeq(Numbered(notifications),
                              LAMBDA n : n.note.room \in rooms[c])]

(* ---------------- the log entry of one event ---------------- *)
(* variant: timestamp and metadata exchanged *)
NewLogEntrySwapped(sessionId, eventType, timestamp, metadata, impact) ==
    [id |-> DateNowString, sessionId |-> sessionId, eventType |-> eventType,
     timestamp |-> metadata, metadata |-> timestamp, impact |-> impact]

(* { id: Date.now().toString(), sessionId, eventType, timestamp, metadata, impact } *)
NewLogEntry(sessionId, eventType, timestamp, metadata, impact) ==
    [id |-> DateNowString, sessionId |-> sessionId, eventType |-> eventType,
     timestamp |-> timestamp, metadata |-> metadata, impact |-> impact]

(* ---------------- initial state ---------------- *)
Init ==
    /\ users = <<>>
    /\ examSessions = <<>>
    /\ logs = <<>>
    /\ now = 1
    /\ emitted = <<>>
    /\ res = [op |-> "none", status |-> 0]
    /\ applied = <<>>
    /\ rooms = [c \in Sockets |-> {}]
    /\ inbox = [c \in Sockets |-> <<>>]

(* the wall clock advances between two requests *)
Tick ==
    /\ now < MaxClock
    /\ now' = now + 1
    /\ UNCHANGED <<users, examSessions, logs, emitted, res, applied, rooms, inbox>>

(* POST /api/auth/login *)
Login(username) ==
    LET found == FindUser(username)
        user == IF found # 0 THEN users[found]
                ELSE [id |-> DateNowString, username |-> username, status |-> "active"]
    IN  /\ users' = IF found # 0 THEN users ELSE Append(users, user)
        /\ res' = [op |-> "login", status |-> 200, user |-> user,
                   token |-> <<"fake-jwt-token-", user.id>>]
        /\ UNCHANGED <<examSessions, logs, now, emitted, applied, rooms, inbox>>

(* variant: a start for a userId and examId already stored returns that session *)
StartExamReusing(userId, examId) ==
    \E t \in now..Min(now + 1, MaxClock) :
        LET session == [id |-> DateNowString, userId |-> userId, examId |-> examId,
                        startTime |-> t, riskScore |-> 0, warnings |-> 0,
                        status |-> "ongoing"]
            old == {i \in DOMAIN examSessions :
                       examSessions[i].userId = userId /\ examSessions[i].examId = examId}
        IN  IF old = {}
            THEN /\ examSessions' = Append(examSessions, session)
                 /\ now' = t
                 /\ applied' = Append(applied, <<>>)
                 /\ res' = [op |-> "start", status |-> 200, session |-> session]
                 /\ UNCHANGED <<users, logs, emitted, rooms, inbox>>
            ELSE /\ res' = [op |-> "start", status |-> 200,
                            session |-> examSessions[CHOOSE i \in old : TRUE]]
                 /\ now' = t
                 /\ UNCHANGED <<users, examSessions, logs, emitted, applied, rooms, inbox>>

(* POST /api/exam/start: id is Date.now(), startTime a second, later clock read *)
StartExam(userId, examId) ==
    \E t \in now..Min(now + 1, MaxClock) :
        LET session == [id |-> DateNowString, userId |-> userId, examId |-> examId,
                        startTime |-> t, riskScore |-> 0, warnings |-> 0,
                        status |-> "ongoing"]
        IN  /\ examSessions' = Append(examSessions, session)
            /\ now' = t
            /\ applied' = Append(applied, <<>>)
            /\ res' = [op |-> "start", status |-> 200, session |-> session]
            /\ UNCHANGED <<users, logs, emitted, rooms, inbox>>

(* POST /api/exam/event *)
PostEvent(sessionId, eventType, timestamp, metadata) ==
    LET idx == FindSession(sessionId)
    IN  IF idx = 0
        THEN /\ res' = [op |-> "event", status |-> 404, error |-> "Session not found"]
             /\ UNCHANGED <<users, examSessions, logs, now, emitted, applied, rooms, inbox>>
        ELSE LET session == examSessions[idx]
                 eventRiskScore == calculateRisk(eventType)
                 riskScore == NextRiskScore(session.riskScore, eventRiskScore)
                 warnings == NextWarnings(session.warnings, eventRiskScore)
                 updated == [session EXCEPT !.riskScore = riskScore,
                                            !.warnings = warnings,
                                            !.status = NextStatus(session.status, warnings)]
                 logEntry == NewLogEntry(sessionId, eventType, timestamp, metadata,
                                         eventRiskScore)
             IN  /\ examSessions' = StoreSession(idx, updated)
                 /\ emitted' = emitted \o EventEmits(sessionId, eventType, eventRiskScore,
                                                     warnings, riskScore)
                 /\ logs' = Append(logs, logEntry)
                 /\ applied' = [applied EXCEPT ![idx] = Append(@, eventType)]
                 /\ res' = [op |-> "event", status |-> 200, log |-> logEntry,
                            session |-> updated]
                 /\ inbox' = Deliver(EventEmits(sessionId, eventType, eventRiskScore,
                                                  warnings, riskScore))
                 /\ UNCHANGED <<users, now, rooms>>

(* variant: a report that removes the logs it returned *)
GetReportDraining(sessionId) ==
    LET idx == FindSession(sessionId)
        sessionLogs == SessionLogs(sessionId)
    IN  /\ res' = IF idx = 0
                  THEN [op |-> "report", status |-> 404, error |-> "Session not found"]
                  ELSE [op |-> "report", status |-> 200,
                        session |-> examSessions[idx], events |-> sessionLogs,
                        totalWarnings |-> examSessions[idx].warnings,
                        finalRiskScore |-> examSessions[idx].riskScore]
        /\ logs' = SelectSeq(logs, LAMBDA l : l.sessionId # sessionId)
        /\ UNCHANGED <<users, examSessions, now, emitted, applied, rooms, inbox>>

(* GET /api/exam/report/:sessionId *)
GetReport(sessionId) ==
    LET idx == FindSession(sessionId)
        sessionLogs == SessionLogs(sessionId)
    IN  /\ res' = IF idx = 0
                  THEN [op |-> "report", status |-> 404, error |-> "Session not found"]
                  ELSE [op |-> "report", status |-> 200,
                        session |-> examSessions[idx], events |-> sessionLogs,
                        totalWarnings |-> examSessions[idx].warnings,
                        finalRiskScore |-> examSessions[idx].riskScore]
        /\ UNCHANGED <<users, examSessions, logs, now, emitted, applied, rooms, inbox>>

(* socket.on('join_session', sessionId): socket.join(sessionId) *)
JoinSession(socket, sessionId) ==
    /\ rooms' = [rooms EXCEPT ![socket] = @ \cup {sessionId}]
    /\ UNCHANGED <<users, examSessions, logs, now, emitted, res, applied, inbox>>

(* socket.on('disconnect'): the handler only logs; the socket leaves its rooms *)
Disconnect(socket) ==
    /\ rooms' = [rooms EXCEPT ![socket] = {}]
    /\ UNCHANGED <<users, examSessions, logs, now, emitted, res, applied, inbox>>

(* ---------------- the REST API: any request may arrive at any time ---------------- *)
(* the number of records MOCK_DB holds *)
Records == Len(users) + Len(examSessions) + Len(logs)

LoginRequest ==
    \E u \in Usernames : (FindUser(u) # 0 \/ Records < MaxRecords) /\ Login(u)

StartRequest ==
    \E u \in UserIds, e \in ExamIds : Records < MaxRecords /\ StartExam(u, e)

EventRequest ==
    \E s \in SessionIds, e \in SystemTypes, t \in Timestamps, m \in Metadatas :
        (FindSession(s) = 0 \/ Records < MaxRecords) /\ PostEvent(s, e, t, m)

ReportRequest == \E s \in SessionIds : GetReport(s)

Next == Tick \/ LoginRequest \/ StartRequest \/ EventRequest \/ ReportRequest

Spec == Init /\ [][Next]_vars

(* ---------------- one exam attempt: a single session and its events, the ---------------- *)
(* requests arriving back to back (the clock moves only between the two reads  *)
(* of the start handler)                                                        *)
SessionStart ==
    \E u \in UserIds, e \in ExamIds : examSessions = <<>> /\ StartExam(u, e)

SessionEvent ==
    \E s \in SessionIds, e \in EventTypes, t \in Timestamps, m \in Metadatas :
        (FindSession(s) = 0 \/ Len(logs) < MaxEvents) /\ PostEvent(s, e, t, m)

NextSession == SessionStart \/ SessionEvent \/ ReportRequest

SpecSession == Init /\ [][NextSession]_vars

(* ======================= properties of the server ======================= *)
RECURSIVE SumImpacts(_)
SumImpacts(types) ==
    IF types = <<>> THEN 0
    ELSE calculateRisk(Head(types)) + SumImpacts(Tail(types))

PositiveEvents(types) == {k \in DOMAIN types : calculateRisk(types[k]) > 0}

HighRiskCount(sessionId) ==
    Cardinality({k \in DOMAIN emitted :
                    emitted[k].event = "high_risk" /\ emitted[k].room = sessionId})

Known(sessionId) == \E i \in DOMAIN examSessions : examSessions[i].id = sessionId

(* the k-th smallest element of a set of positions *)
KthOf(S, k) == CHOOSE j \in S : Cardinality({x \in S : x < j}) = k - 1

(* C1: after every event applied to a session, its riskScore is             *)
(* min(100, sum of the impacts of all events applied to it so far).          *)
C1_RiskIsClampedSum ==
    \A i \in DOMAIN examSessions :
        examSessions[i].riskScore = Min(100, SumImpacts(applied[i]))

C1_Witness ==
    \E i \in DOMAIN examSessions :
        /\ Len(applied[i]) >= 3
        /\ SumImpacts(applied[i]) > 100
        /\ examSessions[i].riskScore = 100

(* C2: the high_risk notification is emitted exactly once per session, on   *)
(* the event at which warnings first reaches 3, and never again afterwards.  *)
C2_HighRiskOnce ==
    \A i \in DOMAIN examSessions :
        FindSession(examSessions[i].id) = i =>
            HighRiskCount(examSessions[i].id) =
                (IF Cardinality(PositiveEvents(applied[i])) >= 3 THEN 1 ELSE 0)

(* one step of the session table, seen from a session's status *)
C3_StatusStep ==
    /\ \A i \in DOMAIN examSessions' :
        i \notin DOMAIN examSessions => examSessions'[i].status = "ongoing"
    /\ \A i \in DOMAIN examSessions :
        /\ i \in DOMAIN examSessions'
        /\ (examSessions[i].status = "high_risk"
                => examSessions'[i].status = "high_risk")
        /\ (examSessions[i].warnings < 3 /\ examSessions'[i].warnings >= 3
                => examSessions'[i].status = "high_risk")
        /\ (examSessions[i].status = "ongoing" /\ examSessions'[i].warnings < 3
                => examSessions'[i].status = "ongoing")

(* C3: a session is ongoing until the event at which warnings first reaches *)
(* 3, is high_risk from that event on, and never goes back to ongoing.       *)
C3_StatusNeverReverts == [][C3_StatusStep]_vars

C3_Witness ==
    \E i \in DOMAIN examSessions :
        /\ examSessions[i].status = "high_risk"
        /\ examSessions[i].warnings = 3
        /\ Len(applied[i]) = 4
        /\ calculateRisk(applied[i][4]) = 0

(* C4: warnings equals the number of events applied so far with impact > 0. *)
C4_WarningsCountPositive ==
    \A i \in DOMAIN examSessions :
        examSessions[i].warnings = Cardinality(PositiveEvents(applied[i]))

C4_Witness ==
    \E i \in DOMAIN examSessions :
        /\ Len(applied[i]) = 3
        /\ examSessions[i].warnings = 2
        /\ calculateRisk(applied[i][2]) = 0

(* a step of the event handler on an id no stored session has *)
C5_UnknownStep ==
    \A s \in SessionIds, e \in EventTypes, t \in Timestamps, m \in Metadatas :
        (~Known(s) /\ PostEvent(s, e, t, m)) =>
            /\ res'.op = "event"
            /\ res'.status = 404
            /\ res'.error = "Session not found"
            /\ UNCHANGED <<users, examSessions, logs, emitted>>

(* C5: an event for an unknown session id fails with not-found and changes  *)
(* nothing: no log entry, no notification, users/sessions/logs unchanged.    *)
C5_UnknownSessionNoEffect == [][C5_UnknownStep]_vars

C5_Witness ==
    /\ res.op = "event"
    /\ res.status = 404
    /\ examSessions # <<>>
    /\ logs # <<>>
    /\ emitted # <<>>

(* a step of the report handler on an id some stored session has *)
C6_ReportStep ==
    \A s \in SessionIds :
        (Known(s) /\ GetReport(s)) =>
            LET positions == {j \in DOMAIN logs : logs[j].sessionId = s}
                owners == {i \in DOMAIN examSessions : examSessions[i].id = s}
                first == CHOOSE i \in owners : \A j \in owners : i <= j
            IN  /\ res'.op = "report"
                /\ res'.status = 200
                /\ res'.session = examSessions[first]
                /\ res'.finalRiskScore = examSessions[first].riskScore
                /\ res'.totalWarnings = examSessions[first].warnings
                /\ Len(res'.events) = Cardinality(positions)
                /\ \A k \in DOMAIN res'.events :
                       res'.events[k] = logs[KthOf(positions, k)]
                /\ Len(res'.events) = Len(applied[first])
                /\ \A k \in DOMAIN res'.events :
                       res'.events[k].eventType = applied[first][k]

(* C6: the report of a known session lists exactly the log entries of the   *)
(* events submitted for it, in submission order, and its finalRiskScore and  *)
(* totalWarnings are the session's current riskScore and warnings.           *)
C6_ReportListsSessionLogs == [][C6_ReportStep]_vars

C6_Witness ==
    /\ res.op = "report"
    /\ res.status = 200
    /\ Len(res.events) = 1
    /\ Len(logs) = 2
    /\ logs[1].sessionId # res.session.id
    /\ res.finalRiskScore > 0

(* the scenario's events and the values stated for it *)
Scenario == <<"tab_switch", "looking_away", "multiple_faces", "fast_answering">>

ScenarioRisk == <<15, 25, 60, 65>>

ScenarioWarnings == <<1, 2, 3, 3>>

ScenarioHighRisk == <<0, 0, 1, 1>>

(* the values the server gives where they differ from the stated ones *)
ObservedWarnings == <<1, 2, 3, 4>>

ObservedHighRisk == <<0, 0, 1, 2>>

OnlyMultipleFaces(types) == \A k \in DOMAIN types : types[k] = "multiple_faces"

(* one step of the session table, seen from riskScore and warnings *)
C8_RiskStep ==
    /\ \A i \in DOMAIN examSessions' :
        /\ examSessions'[i].riskScore \in 0..100
        /\ (OnlyMultipleFaces(applied'[i]) /\ Len(applied'[i]) >= 3)
               => examSessions'[i].riskScore = 100
    /\ \A i \in DOMAIN examSessions :
        /\ i \in DOMAIN examSessions'
        /\ examSessions'[i].riskScore >= examSessions[i].riskScore
        /\ examSessions'[i].warnings >= examSessions[i].warnings

(* C8: riskScore is always an integer in [0,100]; riskScore and warnings     *)
(* never decrease across a step; repeated multiple_faces events reach 100    *)
(* and stay at exactly 100.                                                  *)
C8_RiskBoundedMonotone == [][C8_RiskStep]_vars

C8_Witness ==
    \E i \in DOMAIN examSessions :
        /\ Len(applied[i]) = 4
        /\ OnlyMultipleFaces(applied[i])
        /\ examSessions[i].riskScore = 100

(* a step of the login handler on a stored username, and the store after any step *)
C9_LoginStep ==
    /\ \A u \in Usernames :
        ((\E i \in DOMAIN users : users[i].username = u) /\ Login(u)) =>
            /\ users' = users
            /\ res'.op = "login"
            /\ \E i \in DOMAIN users : users[i].username = u /\ res'.user = users[i]
    /\ \A i, j \in DOMAIN users' :
        users'[i].username = users'[j].username => i = j

(* C9: login is find-or-create by username: a login for a username that     *)
(* already has a record returns that record and adds nothing, so the store   *)
(* never holds two users with one username.                                  *)
C9_LoginFindOrCreate == [][C9_LoginStep]_vars

C9_Witness ==
    /\ Len(users) = 2
    /\ users[1].id = users[2].id
    /\ res.op = "login"
    /\ res.user = users[1]

(* the stated table of risks and messages *)
RiskTable ==
    [l \in ProbeLabels |->
        CASE l = "tab_switch" -> 15
          [] l = "no_face" -> 20
          [] l = "multiple_faces" -> 35
          [] l = "looking_away" -> 10
          [] l = "voice_detected" -> 25
          [] l = "fast_answering" -> 5
          [] OTHER -> 0]

MessageTable ==
    [l \in ProbeLabels |->
        CASE l = "tab_switch" -> "Warning: Please stay on the exam tab."
          [] l = "no_face" -> "Warning: No face detected in webcam."
          [] l = "multiple_faces" -> "Warning: Multiple faces detected!"
          [] l = "looking_away" -> "Warning: Please stay focused on the screen."
          [] l = "voice_detected" -> "Warning: Voice detected in the background."
          [] OTHER -> "Warning: Suspicious activity detected."]

(* C10: the risk rules are a total lookup: the six known labels map to      *)
(* 15, 20, 35, 10, 25, 5 and every other label to 0; five labels have their  *)
(* own message, fast_answering and every other label the default message;    *)
(* every impact logged and every warning message emitted is the table's.     *)
C10_RiskRulesTable ==
    /\ \A l \in ProbeLabels :
        /\ calculateRisk(l) = RiskTable[l]
        /\ getWarningMessage(l) = MessageTable[l]
    /\ \A k \in DOMAIN logs : logs[k].impact = RiskTable[logs[k].eventType]
    /\ \A k \in DOMAIN emitted :
        emitted[k].event = "warning" =>
            emitted[k].payload.message = MessageTable[emitted[k].payload.type]

C10_Witness ==
    /\ \E k \in DOMAIN logs : logs[k].eventType = "mouse_move" /\ logs[k].impact = 0
    /\ \E k \in DOMAIN emitted :
        /\ emitted[k].event = "warning"
        /\ emitted[k].payload.type = "fast_answering"
        /\ emitted[k].payload.message = "Warning: Suspicious activity detected."

(* the notifications a step added to the emitted ones *)
NewEmits == SubSeq(emitted', Len(emitted) + 1, Len(emitted'))

(* the step appended a log entry of an event of type e for session s *)
Logged(s, e) ==
    /\ Len(logs') = Len(logs) + 1
    /\ logs'[Len(logs')].sessionId = s
    /\ logs'[Len(logs')].eventType = e

(* a step of the event handler on a stored id, seen from the notifications *)
C11_EmitStep ==
    \A s \in SessionIds, e \in EventTypes, t \in Timestamps, m \in Metadatas :
        (Known(s) /\ Logged(s, e) /\ PostEvent(s, e, t, m)) =>
            LET new == NewEmits
            IN  /\ Len(emitted') >= Len(emitted)
                /\ SubSeq(emitted', 1, Len(emitted)) = emitted
                /\ Len(new) \in 0..2
                /\ \A k \in DOMAIN new :
                    /\ new[k].room = s
                    /\ new[k].event \in {"warning", "high_risk"}
                /\ \A j, k \in DOMAIN new :
                    j < k => (new[j].event = "warning" /\ new[k].event = "high_risk")
                /\ (\E k \in DOMAIN new : new[k].event = "warning")
                       <=> (RiskTable[e] > 0)

(* C11: each applied event emits 0, 1 or 2 notifications to the session's   *)
(* channel, the warning (if any) before the high_risk (if any); a warning is *)
(* emitted if and only if the event's impact is greater than 0.              *)
C11_EmitsPerEvent == [][C11_EmitStep]_vars

C11_Witness ==
    /\ \E i \in DOMAIN examSessions :
        /\ Len(applied[i]) = 4
        /\ calculateRisk(applied[i][1]) = 0
    /\ Len(emitted) = 4
    /\ emitted[3].event = "warning"
    /\ emitted[4].event = "high_risk"

(* a step of the event handler on a stored id appends one entry; any step keeps the log *)
C12_LogStep ==
    /\ Len(logs') >= Len(logs)
    /\ SubSeq(logs', 1, Len(logs)) = logs
    /\ \A s \in SessionIds, e \in EventTypes, t \in Timestamps, m \in Metadatas :
        (Known(s) /\ PostEvent(s, e, t, m)) =>
            /\ Len(logs') = Len(logs) + 1
            /\ logs'[Len(logs')].sessionId = s
            /\ logs'[Len(logs')].eventType = e
            /\ logs'[Len(logs')].timestamp = t
            /\ logs'[Len(logs')].metadata = m
            /\ logs'[Len(logs')].impact = RiskTable[e]
            /\ res'.log = logs'[Len(logs')]

(* C12: every applied event, also one with impact 0, appends exactly one    *)
(* entry to the end of the log carrying its sessionId, eventType, timestamp, *)
(* metadata and impact; no step removes, reorders or changes an entry.       *)
C12_LogAppendOnly == [][C12_LogStep]_vars

C12_Witness ==
    /\ Len(logs) = 2
    /\ logs[1].impact > 0
    /\ logs[2].impact = 0
    /\ logs[2].eventType = "mouse_move"
    /\ res.op = "report"

(* a step of the start handler, seen from the session table *)
C13_StartStep ==
    \A u \in UserIds, e \in ExamIds :
        StartExam(u, e) =>
            /\ Len(examSessions') = Len(examSessions) + 1
            /\ SubSeq(examSessions', 1, Len(examSessions)) = examSessions
            /\ examSessions'[Len(examSessions')].userId = u
            /\ examSessions'[Len(examSessions')].examId = e
            /\ examSessions'[Len(examSessions')].riskScore = 0
            /\ examSessions'[Len(examSessions')].warnings = 0
            /\ examSessions'[Len(examSessions')].status = "ongoing"
            /\ res'.op = "start"
            /\ res'.session = examSessions'[Len(examSessions')]

(* C13: every exam start adds exactly one new session record with          *)
(* riskScore 0, warnings 0, status ongoing, never returns or resets a stored *)
(* session (also for the same userId and examId) and leaves every stored     *)
(* session record unchanged.                                                 *)
C13_StartAlwaysCreates == [][C13_StartStep]_vars

C13_Witness ==
    /\ Len(examSessions) = 2
    /\ examSessions[1].userId = examSessions[2].userId
    /\ examSessions[1].examId = examSessions[2].examId
    /\ examSessions[1].riskScore > 0
    /\ examSessions[2].riskScore = 0
    /\ res.op = "start"

(* a step of the report handler, for a stored or an unknown id *)
C14_ReportStep ==
    \A s \in SessionIds :
        GetReport(s) =>
            /\ UNCHANGED <<users, examSessions, logs, emitted>>
            /\ (res.op = "report" /\ res.status = 200 /\ res.session.id = s)
                   => res' = res
            /\ (res.op = "report" /\ res.status = 404 /\ ~Known(s))
                   => res' = res

(* C14: building a report is a pure read: for a stored or an unknown id it  *)
(* leaves users, sessions and logs unchanged and emits nothing, and a second *)
(* report for the same id right after the first is identical to it.          *)
C14_ReportPureRead == [][C14_ReportStep]_vars

C14_Witness ==
    /\ res.op = "report"
    /\ res.status = 200
    /\ Len(res.events) = 2
    /\ users # <<>>
    /\ emitted # <<>>

(* C15: no two stored sessions share an id (also after several starts in    *)
(* one clock tick), so the id a start returned names the session it created. *)
C15_SessionIdsUnique ==
    \A i, j \in DOMAIN examSessions :
        examSessions[i].id = examSessions[j].id => i = j

(* C16: no two entries of the event log have the same id, also after        *)
(* several events processed in one clock tick.                               *)
C16_LogIdsUnique ==
    \A i, j \in DOMAIN logs : logs[i].id = logs[j].id => i = j

(* a step of the event handler with a positive impact, seen from its warning *)
C17_WarningStep ==
    \A s \in SessionIds, e \in EventTypes, t \in Timestamps, m \in Metadatas :
        (Known(s) /\ RiskTable[e] > 0 /\ Logged(s, e) /\ PostEvent(s, e, t, m)) =>
            LET owners == {i \in DOMAIN examSessions : examSessions[i].id = s}
                a == CHOOSE i \in owners : \A j \in owners : i <= j
                new == NewEmits
            IN  /\ new # <<>>
                /\ new[1].room = s
                /\ new[1].event = "warning"
                /\ new[1].payload.type = e
                /\ new[1].payload.message = getWarningMessage(e)
                /\ new[1].payload.currentWarnings = examSessions'[a].warnings
                /\ new[1].payload.currentWarnings = examSessions[a].warnings + 1
                /\ new[1].payload.riskScore = examSessions'[a].riskScore
                /\ new[1].payload.riskScore =
                       Min(100, examSessions[a].riskScore + RiskTable[e])

(* C17: the warning emitted for an event carries the event's type, its      *)
(* warning message, and the session's warnings and riskScore as they are     *)
(* after this event's update (incremented, increased and clamped).           *)
C17_WarningPayload == [][C17_WarningStep]_vars

C17_Witness ==
    \E k \in DOMAIN emitted :
        /\ emitted[k].event = "warning"
        /\ emitted[k].payload.currentWarnings = 3
        /\ emitted[k].payload.riskScore = 100
        /\ emitted[k].payload.type = "multiple_faces"

(* a step of the event handler on a stored id, seen from what it leaves alone *)
C19_FrameStep ==
    \A s \in SessionIds, e \in EventTypes, t \in Timestamps, m \in Metadatas :
        (Known(s) /\ PostEvent(s, e, t, m)) =>
            /\ users' = users
            /\ DOMAIN examSessions' = DOMAIN examSessions
            /\ \E a \in DOMAIN examSessions :
                /\ examSessions[a].id = s
                /\ examSessions'[a].id = examSessions[a].id
                /\ examSessions'[a].userId = examSessions[a].userId
                /\ examSessions'[a].examId = examSessions[a].examId
                /\ examSessions'[a].startTime = examSessions[a].startTime
                /\ \A i \in DOMAIN examSessions :
                       i # a => examSessions'[i] = examSessions[i]

(* C19: applying an event to session A changes only A's riskScore, warnings *)
(* and status and the event log: A's id, userId, examId and startTime, every *)
(* other session record and the users are unchanged.                         *)
C19_EventFrame == [][C19_FrameStep]_vars

C19_Witness ==
    /\ Len(examSessions) = 2
    /\ examSessions[1].id # examSessions[2].id
    /\ examSessions[1].riskScore > 0
    /\ examSessions[2].riskScore > 0
    /\ logs[1].sessionId = examSessions[2].id
    /\ res.op = "event"
    /\ res.status = 200

(* C20: every stored session's status is high_risk if and only if its       *)
(* warnings are 3 or more, and ongoing otherwise; there is no other status.  *)
C20_StatusIffThreeWarnings ==
    \A i \in DOMAIN examSessions :
        /\ examSessions[i].status \in {"ongoing", "high_risk"}
        /\ examSessions[i].status = "high_risk" <=> examSessions[i].warnings >= 3

C20_Witness ==
    \E i \in DOMAIN examSessions :
        /\ examSessions[i].warnings = 3
        /\ examSessions[i].status = "high_risk"
        /\ Len(applied[i]) = 4
        /\ calculateRisk(applied[i][1]) = 0

(* ---------------- the real-time channel: sessions, events and sockets ---------------- *)
JoinRequest == \E c \in Sockets, s \in SessionIds : JoinSession(c, s)

DisconnectRequest == \E c \in Sockets : rooms[c] # {} /\ Disconnect(c)

(* the events sent while sockets come and go: each one warns, the third and *)
(* later ones of a session also publish high_risk                            *)
RoomTypes == {"multiple_faces"}

RoomEvent ==
    \E s \in SessionIds, e \in RoomTypes, t \in Timestamps, m \in Metadatas :
        /\ FindSession(s) # 0
        /\ Records < MaxRecords
        /\ PostEvent(s, e, t, m)

NextRooms == StartRequest \/ RoomEvent \/ JoinRequest \/ DisconnectRequest

SpecRooms == Init /\ [][NextRooms]_vars

(* a step of the server, seen from what each socket received *)
C18_DeliveryStep ==
    \A c \in Sockets :
        /\ Len(inbox'[c]) >= Len(inbox[c])
        /\ SubSeq(inbox'[c], 1, Len(inbox[c])) = inbox[c]
        /\ \A k \in (Len(inbox[c]) + 1)..Len(inbox'[c]) :
            /\ inbox'[c][k].seq \in (Len(emitted) + 1)..Len(emitted')
            /\ inbox'[c][k].note = emitted'[inbox'[c][k].seq]
            /\ inbox'[c][k].note.room \in rooms[c]
        /\ \A j, k \in DOMAIN inbox'[c] :
            inbox'[c][j].seq = inbox'[c][k].seq => j = k

(* C18: a notification published for a session is delivered at most once   *)
(* to a socket, and only to sockets that joined the session's room before    *)
(* the publish; a socket joined only to other rooms does not receive it, and *)
(* a socket that joins later does not receive the earlier notifications.     *)
C18_DeliveryToJoined == [][C18_DeliveryStep]_vars

C18_Witness ==
    /\ Len(emitted) = 2
    /\ emitted[1].room = emitted[2].room
    /\ Len(inbox["c1"]) = 1
    /\ inbox["c1"][1].seq = 2
    /\ inbox["c2"] = <<>>
    /\ rooms["c2"] = {emitted[1].room}
    /\ \E r \in rooms["c1"] : r # emitted[1].room

====
